---- MODULE Spec2Model ----
(***************************************************************************)
(* Model of src/app/page.tsx (component Home).                              *)
(*                                                                         *)
(* Spec: the file collection, with format detection, addFiles and its      *)
(* concurrent validations, removeFile, clearAllFiles, moveFile and the     *)
(* keyboard handler.                                                       *)
(* MergeSpec: the collection filled one file at a time, with the merge     *)
(* button and the mergeFiles calls it starts, resumed await by await.      *)
(* MergeCallSpec: the same with mergeFiles called directly.                *)
(* StrategySpec: one call of mergePDFs or mergeCSVs on the contents of its *)
(* input files, iteration by iteration.                                    *)
(*                                                                         *)
(* React state is modelled at two levels.  `files`, `error` and            *)
(* `selectedFileIndex` hold the state with every enqueued update applied   *)
(* in enqueue order.  `renderedFiles` is the `files` value of the last     *)
(* render, the one the closures of addFiles, moveFile and handleKeyDown    *)
(* read.  Updates made in a discrete event handler (click, keydown) are    *)
(* rendered synchronously at the end of the event; updates made in the     *)
(* promise callback of addFiles are rendered later, by Render.             *)
(***************************************************************************)
EXTENDS Integers, Sequences, FiniteSets, Bags, TLC

\* ------------------------------------------------------------------ bounds

\* Largest number of files submitted and not yet settled, over all the
\* addFiles calls in flight (so also the longest batch).
MaxInFlight == 2

\* Largest number of pending success timeouts with which a merge is requested.
MaxTimers == 1

\* Largest number of files passed to a merge strategy observed alone.
MaxInputs == 3

\* ------------------------------------------------------------- characters

Upper == <<"A","B","C","D","E","F","G","H","I","J","K","L","M",
           "N","O","P","Q","R","S","T","U","V","W","X","Y","Z">>
Lower == <<"a","b","c","d","e","f","g","h","i","j","k","l","m",
           "n","o","p","q","r","s","t","u","v","w","x","y","z">>

\* The lower-case form of every character that has one.
lowerCaseOf ==
    [c \in {Upper[i] : i \in 1..26} |->
        Lower[CHOOSE i \in 1..26 : Upper[i] = c]]

LowerChar(c) == IF c \in DOMAIN lowerCaseOf THEN lowerCaseOf[c] ELSE c

\* String.prototype.toLowerCase on a string given as its characters.
toLowerCase(s) == [i \in 1..Len(s) |-> LowerChar(s[i])]

\* String.prototype.endsWith.
endsWith(s, suffix) ==
    /\ Len(s) >= Len(suffix)
    /\ SubSeq(s, Len(s) - Len(suffix) + 1, Len(s)) = suffix

ExtPdf  == <<".","p","d","f">>
ExtCsv  == <<".","c","s","v">>
ExtDocx == <<".","d","o","c","x">>
ExtDoc  == <<".","d","o","c">>

\* ------------------------------------------------------------ input files

MiB == 1024 * 1024

\* The File objects the user can pick or drop: name, declared media type,
\* size in bytes, and whether the bytes can be read and parsed.
SampleFiles ==
    { [name |-> <<"a",".","P","D","F">>, type |-> "",
       size |-> 200 * MiB, wellFormed |-> TRUE],
      [name |-> <<"c",".","p","d","f">>, type |-> "application/pdf",
       size |-> 100 * MiB, wellFormed |-> FALSE],
      [name |-> <<"d",".","c","s","v">>, type |-> "text/csv",
       size |-> 150 * MiB, wellFormed |-> TRUE],
      [name |-> <<"e",".","t","x","t">>, type |-> "text/plain",
       size |-> 1, wellFormed |-> TRUE] }

\* Two Word files, used where Word merges are exercised.
WordSamples ==
    { [name |-> <<"w",".","d","o","c","x">>,
       type |-> "application/vnd.openxmlformats-officedocument.wordprocessingml.document",
       size |-> 250 * MiB, wellFormed |-> TRUE],
      [name |-> <<"o",".","d","o","c">>, type |-> "application/msword",
       size |-> 250 * MiB, wellFormed |-> TRUE] }

\* ------------------------------------------------------- format detection

\* getFileType; "null" stands for the null result.
getFileType(file) ==
    LET name == toLowerCase(file.name)
        type == file.type
    IN  IF type = "application/pdf" \/ endsWith(name, ExtPdf) THEN "pdf"
        ELSE IF type = "text/csv" \/ type = "application/vnd.ms-excel"
                \/ endsWith(name, ExtCsv) THEN "csv"
        ELSE IF type = "application/vnd.openxmlformats-officedocument.wordprocessingml.document"
                \/ endsWith(name, ExtDocx) THEN "docx"
        ELSE IF type = "application/msword" \/ endsWith(name, ExtDoc) THEN "doc"
        ELSE "null"

\* Object.assign(file, { fileType }).
WithType(file) ==
    [name |-> file.name, type |-> file.type, size |-> file.size,
     wellFormed |-> file.wellFormed, fileType |-> getFileType(file)]

\* The File objects of a batch that have a detected type, in batch order
\* (validFiles), and the names of the others (invalidFiles).
\* WithType on every input file, computed once.
typedSample == [f \in SampleFiles \cup WordSamples |-> WithType(f)]

validFilesOf(newFiles) ==
    LET typed == [i \in 1..Len(newFiles) |-> typedSample[newFiles[i]]]
        Supported(f) == f.fileType # "null"
    IN  SelectSeq(typed, Supported)

invalidFilesOf(newFiles) ==
    LET Unsupported(f) == typedSample[f].fileType = "null"
        rejected == SelectSeq(newFiles, Unsupported)
    IN  [i \in 1..Len(rejected) |-> rejected[i].name]

\* --------------------------------------------------------- error messages

\* The value of the `error` state: null, or one of the four messages of
\* addFiles with the file names and file types it interpolates.
Msg(kind, names, types) == [kind |-> kind, names |-> names, types |-> types]

NoError == Msg("null", <<>>, <<>>)

UnsupportedMsg(invalidFiles) == Msg("notSupported", invalidFiles, <<>>)

SameTypeMsg(existingType, firstType) ==
    Msg("sameType", <<>>, <<existingType, firstType>>)

CorruptedMsg(file) == Msg("corrupted", <<file.name>>, <<file.fileType>>)

SizeLimitMsg == Msg("sizeLimit", <<>>, <<>>)

\* The state after a list of setError calls, in the order they are enqueued.
ApplySetError(current, calls) ==
    IF calls = <<>> THEN current ELSE calls[Len(calls)]

\* ------------------------------------------------------------- validation

\* Whether the validation callback of a file returns the file (TRUE) or
\* catches and returns null (FALSE).  A DOC file is accepted unread.
Validates(file) == file.fileType = "doc" \/ file.wellFormed

\* The null a failed validation returns.
NullResult ==
    [name |-> <<>>, type |-> "", size |-> 0, wellFormed |-> FALSE,
     fileType |-> "null"]

\* Mutant: the results collected in the order the validations completed.
PromiseAll_ByCompletion(batch, order) ==
    [k \in 1..Len(batch) |->
        IF Validates(batch[order[k]]) THEN batch[order[k]] ELSE NullResult]

\* Mutant: no try/catch around a validation, so one failure fails them all.
PromiseAll_OneFailsAll(batch, order) ==
    [i \in 1..Len(batch) |->
        IF \A k \in 1..Len(batch) : Validates(batch[k])
        THEN batch[i] ELSE NullResult]

\* Promise.all over the validations of a batch: the results by batch index,
\* whatever order (`order`, batch indices by completion) they completed in.
PromiseAll(batch, order) ==
    [i \in 1..Len(batch) |->
        IF Validates(batch[i]) THEN batch[i] ELSE NullResult]

\* validatedFiles.filter(f => f !== null)
FilterNonNull(validatedFiles) ==
    LET NonNull(f) == f # NullResult
    IN  SelectSeq(validatedFiles, NonNull)

\* ------------------------------------------------------------- size limit

RECURSIVE TotalSize(_)
\* combined.reduce((sum, f) => sum + f.size, 0)
TotalSize(list) ==
    IF list = <<>> THEN 0 ELSE list[1].size + TotalSize(Tail(list))

maxSize == 500 * 1024 * 1024

\* Mutant: each file compared with the limit instead of their sum.
ExceedsLimit_PerFile(combined) ==
    \E k \in 1..Len(combined) : combined[k].size > maxSize

\* Mutant: a total equal to the limit counts as exceeding it.
ExceedsLimit_AtLimit(combined) == TotalSize(combined) >= maxSize

\* totalSize > maxSize
ExceedsLimit(combined) == TotalSize(combined) > maxSize

\* ------------------------------------------------------------------ state

\* selectedFileIndex = null
NoSelection == -1

VARIABLES
    files,              \* useState files, every enqueued update applied
    renderedFiles,      \* `files` as of the last render (read by closures)
    error,              \* useState error
    selectedFileIndex,  \* useState selectedFileIndex, 0-based or NoSelection
    pending,            \* bag of addFiles calls whose validations are running
    last,               \* the handler step taken last, with its outcome
    isMerging,          \* useState isMerging, every enqueued update applied
    renderedIsMerging,  \* `isMerging` as of the last render (the button's)
    mergeProgress,      \* useState mergeProgress
    success,            \* useState success
    timers,             \* pending setTimeout callbacks that clear `success`
    running,            \* the mergeFiles calls that are suspended at an await
    downloads,          \* link.click() calls since the last merge started
    strategy,           \* merge strategy whose loop is observed, or "none"
    inputs,             \* that call's filesToMerge, each as its parsed content
    loopIndex,          \* that call's loop variable i (0-based)
    merged,             \* that call's accumulator (pages, allRows)
    headers,            \* mergeCSVs' `headers`
    returned,           \* whether that call has returned `merged`
    outputFilename,     \* useState outputFilename, as its characters
    filename,           \* link.download of the last download, or <<>>
    candidate,          \* the File given to an observed getFileType call
    detected            \* that call's result, or "pending" before it returns

\* The state of the collection, of the merge in flight, and of one observed
\* call of a merge strategy.
collectionVars ==
    <<files, renderedFiles, error, selectedFileIndex, pending, last>>
mergeState == <<isMerging, mergeProgress, success, timers, running, downloads>>
mergeVars == <<renderedIsMerging, mergeState>>
strategyVars == <<strategy, inputs, loopIndex, merged, headers, returned>>

outputVars == <<outputFilename, filename>>
detectVars == <<candidate, detected>>

vars == <<collectionVars, mergeVars, strategyVars, outputVars, detectVars>>

Step(op, arg, outcome) == [op |-> op, arg |-> arg, outcome |-> outcome]

\* The value of the `success` state: null, or the message of a merge of n
\* files of a kind.
SuccessMsg(n, kind) == [n |-> n, kind |-> kind]
NoSuccess == SuccessMsg(0, "null")

\* { current, total }
Progress(current, total) == [current |-> current, total |-> total]

\* The initial values of the useState hooks of the collection.
CollectionInit ==
    /\ files = <<>>
    /\ renderedFiles = <<>>
    /\ error = NoError
    /\ selectedFileIndex = NoSelection
    /\ pending = EmptyBag
    /\ last = Step("init", <<>>, "")

\* The initial values of the useState hooks of the merge; no merge runs.
MergeIdle ==
    /\ isMerging = FALSE
    /\ renderedIsMerging = FALSE
    /\ mergeProgress = Progress(0, 0)
    /\ success = NoSuccess
    /\ timers = 0
    /\ running = <<>>
    /\ downloads = <<>>

\* mergeCSVs: headers = null
NullHeaders == "null"

\* No call of a merge strategy is observed.
StrategyIdle ==
    /\ strategy = "none"
    /\ inputs = <<>>
    /\ loopIndex = 0
    /\ merged = <<>>
    /\ headers = NullHeaders
    /\ returned = FALSE

\* useState('merged')
Merged == <<"m","e","r","g","e","d">>

\* The initial output name; nothing has been downloaded.
OutputIdle ==
    /\ outputFilename = Merged
    /\ filename = <<>>

\* No call of getFileType is observed.
DetectIdle ==
    /\ candidate = "none"
    /\ detected = "none"

Init == CollectionInit /\ MergeIdle /\ StrategyIdle /\ OutputIdle /\ DetectIdle

RECURSIVE InFlightOf(_, _)
InFlightOf(bag, recs) ==
    IF recs = {} THEN 0
    ELSE LET r == CHOOSE x \in recs : TRUE
         IN  CopiesIn(r, bag) * Len(r.batch) + InFlightOf(bag, recs \ {r})

\* Number of files whose validation was started and whose batch has not
\* settled.
InFlight == InFlightOf(pending, BagToSet(pending))

RECURSIVE SeqsOver(_, _)
\* The sequences without repetition of exactly n elements of S.
SeqsOver(S, n) ==
    IF n = 0 THEN {<<>>}
    ELSE UNION { { Append(q, x) : x \in S \ {q[i] : i \in 1..Len(q)} }
                 : q \in SeqsOver(S, n - 1) }

\* The FileLists a file input or a drop can deliver within the bound.
Batches == UNION { SeqsOver(SampleFiles, n) : n \in 1..MaxInFlight }

\* ------------------------------------------------------------------ render

\* React re-renders Home: closures now see the current state.
Render ==
    /\ renderedFiles # files \/ renderedIsMerging # isMerging
    /\ renderedFiles' = files
    /\ renderedIsMerging' = isMerging
    /\ last' = Step("render", <<>>, "")
    /\ UNCHANGED <<files, error, selectedFileIndex, pending>>
    /\ UNCHANGED <<mergeState, strategyVars, outputVars,
                   detectVars>>

\* ---------------------------------------------------------------- addFiles

\* addFiles(newFiles) up to the start of the validations (lines 101-134).
addFiles(newFiles) ==
    LET validFiles   == validFilesOf(newFiles)
        invalidFiles == invalidFilesOf(newFiles)
        unsupported  == IF Len(invalidFiles) > 0
                        THEN <<UnsupportedMsg(invalidFiles)>> ELSE <<>>
    IN  IF Len(validFiles) = 0
        THEN /\ error' = ApplySetError(error, unsupported)
             /\ last' = Step("addFiles", <<>>, "nothingValid")
             /\ UNCHANGED <<files, renderedFiles, selectedFileIndex, pending>>
        ELSE LET firstType   == validFiles[1].fileType
                 allSameType == \A i \in 1..Len(validFiles) :
                                    validFiles[i].fileType = firstType
             IN  IF /\ ~allSameType
                    /\ Len(renderedFiles) > 0
                    /\ renderedFiles[1].fileType # firstType
                 THEN /\ error' = ApplySetError(error, unsupported \o
                            <<SameTypeMsg(renderedFiles[1].fileType, firstType)>>)
                      /\ last' = Step("addFiles", <<>>, "sameTypeRejected")
                      /\ UNCHANGED <<files, renderedFiles, selectedFileIndex,
                                     pending>>
                 ELSE /\ error' = ApplySetError(error, unsupported)
                      /\ pending' = pending (+) SetToBag({
                            [batch |-> validFiles, order |-> <<>>,
                             hadInvalid |-> Len(invalidFiles) > 0] })
                      /\ last' = Step("addFiles", <<>>, "validating")
                      /\ UNCHANGED <<files, renderedFiles, selectedFileIndex>>

\* handleFileSelect / handleDrop: the user submits a batch.
AddFiles ==
    /\ InFlight < MaxInFlight
    /\ LET room == MaxInFlight - InFlight
       IN  \E newFiles \in { b \in Batches : Len(b) <= room } :
               addFiles(newFiles)
    /\ UNCHANGED <<mergeVars, strategyVars, outputVars,
                   detectVars>>

\* The setError call of a validation callback: a failure is caught and
\* sets the error naming the file (lines 156-159).
validationError(file) ==
    IF Validates(file) THEN <<>> ELSE <<CorruptedMsg(file)>>

\* One validation callback of a running batch completes while others of
\* the batch are still running (lines 135-160).
ValidateDone ==
    \E p \in BagToSet(pending) :
      \E i \in 1..Len(p.batch) :
        /\ \A k \in 1..Len(p.order) : p.order[k] # i
        /\ Len(p.order) + 1 < Len(p.batch)
        /\ pending' = (pending (-) SetToBag({p})) (+)
                      SetToBag({[p EXCEPT !.order = Append(@, i)]})
        /\ error' = ApplySetError(error, validationError(p.batch[i]))
        /\ last' = Step("validate", <<>>, "")
        /\ UNCHANGED <<files, renderedFiles, selectedFileIndex>>
        /\ UNCHANGED <<mergeVars, strategyVars, outputVars,
                   detectVars>>

\* The last validation callback of a batch completes (`i` is its batch
\* index), which resolves Promise.all and runs the .then callback in the
\* same turn (lines 156-178).  The updater passed to setFiles calls
\* setError itself; React runs an updater either at once inside setFiles
\* (`eager`, when the component has no update pending) or during the next
\* render, after the setError(null) that follows setFiles was enqueued.
addSettle(p, i, eager) ==
    LET order    == Append(p.order, i)
        validatedFiles == PromiseAll(p.batch, order)
        valid    == FilterNonNull(validatedFiles)
        combined == files \o valid
        exceeds  == ExceedsLimit(combined)
        inUpdater == IF exceeds THEN <<SizeLimitMsg>> ELSE <<>>
        afterSet  == IF Len(valid) > 0 /\ ~p.hadInvalid
                     THEN <<NoError>> ELSE <<>>
        inThen    == IF Len(valid) = 0 THEN <<>>
                     ELSE IF eager THEN inUpdater \o afterSet
                     ELSE afterSet \o inUpdater
    IN  /\ \A k \in 1..Len(p.order) : p.order[k] # i
        /\ Len(order) = Len(p.batch)
        /\ pending' = pending (-) SetToBag({p})
        /\ files' = IF Len(valid) > 0 /\ ~exceeds THEN combined ELSE files
        /\ error' = ApplySetError(error,
                        validationError(p.batch[i]) \o inThen)
        /\ last' = Step("addSettle", order,
                        IF Len(valid) = 0 THEN "noneValid"
                        ELSE IF exceeds THEN "sizeRejected" ELSE "appended")
        /\ UNCHANGED <<renderedFiles, selectedFileIndex>>

AddSettle ==
    /\ \E p \in BagToSet(pending) : \E i \in 1..Len(p.batch) :
          \E eager \in BOOLEAN : addSettle(p, i, eager)
    /\ UNCHANGED <<mergeVars, strategyVars, outputVars,
                   detectVars>>

\* ------------------------------------------------- remove, clear, select

\* prev.filter((_, i) => i !== index)
FilterIndex(prev, index) ==
    LET keep == { k \in 1..Len(prev) : k - 1 # index }
        Pos(n) == CHOOSE k \in keep :
                      Cardinality({ j \in keep : j < k }) = n - 1
    IN  [n \in 1..Cardinality(keep) |-> prev[Pos(n)]]

\* The rows of the rendered list, each with its buttons.
Rows == 0..(Len(renderedFiles) - 1)

\* Mutant: removeFile without setSelectedFileIndex(null).
removeButton_KeepsSelection(index) ==
    /\ files' = FilterIndex(files, index)
    /\ renderedFiles' = files'
    /\ renderedIsMerging' = isMerging
    /\ last' = Step("removeFile", <<>>, "")
    /\ UNCHANGED <<selectedFileIndex, error, pending, mergeState,
                   strategyVars, outputVars, detectVars>>

\* A click on the remove button of row `index`: removeFile(index).
removeButton(index) ==
    /\ files' = FilterIndex(files, index)
    /\ selectedFileIndex' = NoSelection
    /\ renderedFiles' = files'
    /\ renderedIsMerging' = isMerging
    /\ last' = Step("removeFile", <<>>, "")
    /\ UNCHANGED <<error, pending, mergeState, strategyVars, outputVars,
                   detectVars>>

\* The remove button of any rendered row.
RemoveFile == \E index \in Rows : removeButton(index)

\* The Clear All button, shown while the rendered list is not empty.
ClearAllFiles ==
    /\ Len(renderedFiles) > 0
    /\ files' = <<>>
    /\ selectedFileIndex' = NoSelection
    /\ error' = NoError
    /\ success' = NoSuccess
    /\ renderedFiles' = files'
    /\ renderedIsMerging' = isMerging
    /\ last' = Step("clearAllFiles", <<>>, "")
    /\ UNCHANGED <<pending, isMerging, mergeProgress, timers, running,
                   downloads, strategyVars, outputVars,
                   detectVars>>

\* A click, Enter or Space on a row: setSelectedFileIndex(index).
SelectFile ==
    \E index \in Rows :
        /\ selectedFileIndex' = index
        /\ renderedFiles' = files
        /\ renderedIsMerging' = isMerging
        /\ last' = Step("select", <<>>, "")
        /\ UNCHANGED <<files, error, pending, mergeState, strategyVars, outputVars,
                   detectVars>>

\* ---------------------------------------------------------------- moveFile

\* An array element read or written outside the array.
Undefined ==
    [name |-> <<>>, type |-> "", size |-> 0, wellFormed |-> FALSE,
     fileType |-> "undefined"]

Max(a, b) == IF a >= b THEN a ELSE b

\* Mutant: the entry at index overwritten by the one at targetIndex, the
\* entry at targetIndex left as it was.
SwapEntries_Overwrite(list, index, targetIndex) ==
    [n \in 1..Len(list) |->
        IF n - 1 = index /\ targetIndex >= 0 /\ targetIndex < Len(list)
        THEN list[targetIndex + 1] ELSE list[n]]

\* const newFiles = [...list];
\* [newFiles[index], newFiles[targetIndex]] = [newFiles[targetIndex], newFiles[index]]
\* with JavaScript's array semantics (indices are 0-based): reading outside
\* the array gives undefined, writing past the end extends the array, and
\* writing at a negative index adds no element.
SwapEntries(list, index, targetIndex) ==
    LET At(k) == IF k >= 0 /\ k < Len(list) THEN list[k + 1] ELSE Undefined
        newLen == Max(Len(list), Max(index, targetIndex) + 1)
    IN  [n \in 1..newLen |->
            IF n - 1 = targetIndex THEN At(index)
            ELSE IF n - 1 = index THEN At(targetIndex)
            ELSE At(n - 1)]

\* Mutant: the lower boundary compared with the length, not the last index.
moveFileReturns_OffByOne(index, direction) ==
    \/ direction = "up" /\ index = 0
    \/ direction = "down" /\ index = Len(renderedFiles)

\* The two early returns of moveFile, on the rendered list.
moveFileReturns(index, direction) ==
    \/ direction = "up" /\ index = 0
    \/ direction = "down" /\ index = Len(renderedFiles) - 1

moveFile(index, direction) ==
    LET targetIndex == IF direction = "up" THEN index - 1 ELSE index + 1
        op == IF direction = "up" THEN "moveFile up" ELSE "moveFile down"
    IN  IF moveFileReturns(index, direction)
        THEN /\ last' = Step(op, <<index>>, "return")
             /\ UNCHANGED <<files, renderedFiles, error, selectedFileIndex,
                            pending, mergeVars, strategyVars, outputVars,
                   detectVars>>
        ELSE /\ files' = SwapEntries(renderedFiles, index, targetIndex)
             /\ selectedFileIndex' = targetIndex
             /\ renderedFiles' = files'
             /\ renderedIsMerging' = isMerging
             /\ last' = Step(op, <<index>>, "swapped")
             /\ UNCHANGED <<error, pending, mergeState, strategyVars, outputVars,
                   detectVars>>

\* The row's move buttons; up is disabled on the first row and down on the
\* last one.
MoveButton ==
    \E index \in Rows : \E direction \in {"up", "down"} :
        /\ ~(direction = "up" /\ index = 0)
        /\ ~(direction = "down" /\ index = Len(renderedFiles) - 1)
        /\ moveFile(index, direction)

\* ----------------------------------------------------------- handleKeyDown

\* Alt+ArrowUp / Alt+ArrowDown with a row selected.
KeyMove ==
    /\ selectedFileIndex # NoSelection
    /\ \E direction \in {"up", "down"} : moveFile(selectedFileIndex, direction)

\* Delete / Backspace with a row selected and the focus outside an input.
KeyDelete ==
    /\ selectedFileIndex # NoSelection
    /\ files' = FilterIndex(files, selectedFileIndex)
    /\ selectedFileIndex' =
          IF selectedFileIndex > 0 THEN selectedFileIndex - 1
          ELSE IF Len(renderedFiles) > 1 THEN 0
          ELSE NoSelection
    /\ renderedFiles' = files'
    /\ renderedIsMerging' = isMerging
    /\ last' = Step("keyDelete", <<>>, "")
    /\ UNCHANGED <<error, pending, mergeState, strategyVars, outputVars,
                   detectVars>>

Next ==
    \/ AddFiles
    \/ ValidateDone
    \/ AddSettle
    \/ Render
    \/ RemoveFile
    \/ ClearAllFiles
    \/ SelectFile
    \/ MoveButton
    \/ KeyMove
    \/ KeyDelete

Spec == Init /\ [][Next]_vars

\* ------------------------------------------------------------------ merge

\* The three messages of mergeFiles; the last one names the kind.
InsufficientMsg == Msg("insufficientFiles", <<>>, <<>>)
MixedTypesMsg == Msg("mixedTypes", <<>>, <<>>)
MergeFailedMsg(firstType) == Msg("mergeFailed", <<>>, <<firstType>>)

\* new Blob([...], { type }) handed to link.click(): the media type of the
\* kind and the input files whose content went into it, in order.
BlobType(fileType) ==
    IF fileType = "pdf" THEN "application/pdf"
    ELSE IF fileType = "csv" THEN "text/csv"
    ELSE "application/vnd.openxmlformats-officedocument.wordprocessingml.document"

Download(fileType, appended) ==
    [type |-> BlobType(fileType), content |-> appended]

\* Mutant: a resumed call reads the collection as it is now.
Run_Live(filesToMerge, at, appended) ==
    [filesToMerge |-> files, at |-> at, appended |-> appended]

\* A mergeFiles call suspended at an await: the `files` of its closure, the
\* await it is suspended at, and the input files appended to its output.
\* at = 0: PDFDocument.create(); at = k in 1..n: the read and parse of
\* file k; at = n + 1: mergedPdf.save() or Packer.toBlob().
Run(filesToMerge, at, appended) ==
    [filesToMerge |-> filesToMerge, at |-> at, appended |-> appended]

\* list.splice(j, 1) on a 1-based position.
RemoveAt(list, j) ==
    [k \in 1..(Len(list) - 1) |-> IF k < j THEN list[k] ELSE list[k + 1]]

\* Mutant: only an empty list is too short to merge.
TooFew_OnlyEmpty(n) == n < 1

\* files.length < 2
TooFew(n) == n < 2

\* Mutant: no list is found mixed.
MixedTypes_Never(list, firstType) == FALSE

\* !files.every(f => f.fileType === firstType)
MixedTypes(list, firstType) ==
    ~(\A k \in 1..Len(list) : list[k].fileType = firstType)

\* mergeFiles from its first line to the first await (lines 368-392, and
\* the strategy up to its first await).  `files` is the rendered list.  The
\* CSV and Word strategies enter their loop at once, so the progress of the
\* first file overwrites the 0 of n set by mergeFiles.
mergeFiles ==
    LET n == Len(renderedFiles)
    IN  IF TooFew(n)
        THEN /\ error' = InsufficientMsg
             /\ renderedFiles' = files
             /\ renderedIsMerging' = isMerging
             /\ last' = Step("mergeFiles", <<>>, "insufficient")
             /\ UNCHANGED <<files, selectedFileIndex, pending, mergeState>>
        ELSE LET firstType == renderedFiles[1].fileType
             IN  IF MixedTypes(renderedFiles, firstType)
                 THEN /\ error' = MixedTypesMsg
                      /\ renderedFiles' = files
                      /\ renderedIsMerging' = isMerging
                      /\ last' = Step("mergeFiles", <<>>, "mixed")
                      /\ UNCHANGED <<files, selectedFileIndex, pending,
                                     mergeState>>
                 ELSE /\ isMerging' = TRUE
                      /\ error' = NoError
                      /\ success' = NoSuccess
                      /\ mergeProgress' = IF firstType = "pdf"
                                          THEN Progress(0, n)
                                          ELSE Progress(1, n)
                      /\ running' = Append(running,
                            Run(renderedFiles,
                                IF firstType = "pdf" THEN 0 ELSE 1, <<>>))
                      /\ downloads' = <<>>
                      /\ renderedFiles' = files
                      /\ renderedIsMerging' = TRUE
                      /\ last' = Step("mergeFiles", <<>>, "started")
                      /\ UNCHANGED <<files, selectedFileIndex, pending,
                                     timers>>

\* Mutant: the button stays enabled while a merge is in flight.
mergeDisabled_NoFlightGuard == Len(renderedFiles) < 2

\* disabled={files.length < 2 || isMerging} of the merge button.
mergeDisabled == Len(renderedFiles) < 2 \/ renderedIsMerging

\* A click on the merge button.  A new merge is not requested while
\* MaxTimers success timeouts are pending.
MergeButton ==
    /\ ~mergeDisabled
    /\ timers < MaxTimers
    /\ mergeFiles
    /\ UNCHANGED <<strategyVars, outputVars, detectVars>>

\* mergeFiles called whatever the state of the button, while no call is
\* suspended.
MergeCall ==
    /\ running = <<>>
    /\ timers < MaxTimers
    /\ mergeFiles
    /\ UNCHANGED <<strategyVars, outputVars, detectVars>>

\* Mutant: no finally block after a delivery, isMerging and the progress
\* counter stay as they were.
mergeDelivery_NoFinally(j, appended) ==
    LET r == running[j]
        fileType == r.filesToMerge[1].fileType
    IN  /\ downloads' = Append(downloads, Download(fileType, appended))
        /\ success' = SuccessMsg(Len(r.filesToMerge), fileType)
        /\ error' = NoError
        /\ timers' = timers + 1
        /\ running' = RemoveAt(running, j)
        /\ last' = Step("mergeStep", <<>>, "delivered")
        /\ UNCHANGED <<isMerging, mergeProgress>>

\* The strategy of run j has returned: the download, the success message
\* with its timeout, and the finally block (lines 393-422, 432-435).
mergeDelivery(j, appended) ==
    LET r == running[j]
        fileType == r.filesToMerge[1].fileType
    IN  /\ downloads' = Append(downloads, Download(fileType, appended))
        /\ success' = SuccessMsg(Len(r.filesToMerge), fileType)
        /\ error' = NoError
        /\ timers' = timers + 1
        /\ isMerging' = FALSE
        /\ mergeProgress' = Progress(0, 0)
        /\ running' = RemoveAt(running, j)
        /\ last' = Step("mergeStep", <<>>, "delivered")

\* Mutant: a failure delivers what was appended so far.
mergeFailure_DeliversPartial(j) == mergeDelivery(j, running[j].appended)

\* Mutant: no finally block, the failed call leaves isMerging and the
\* progress counter as they were.
mergeFailure_NoFinally(j) ==
    /\ error' = MergeFailedMsg(running[j].filesToMerge[1].fileType)
    /\ running' = RemoveAt(running, j)
    /\ last' = Step("mergeStep", <<running[j].at>>, "failed")
    /\ UNCHANGED <<isMerging, mergeProgress, success, timers, downloads>>

\* The catch and finally blocks of mergeFiles (lines 423-435) for run j.
mergeFailure(j) ==
    LET r == running[j]
    IN  /\ error' = MergeFailedMsg(r.filesToMerge[1].fileType)
        /\ isMerging' = FALSE
        /\ mergeProgress' = Progress(0, 0)
        /\ running' = RemoveAt(running, j)
        /\ last' = Step("mergeStep", <<r.at>>, "failed")
        /\ UNCHANGED <<success, timers, downloads>>

\* Run j resumes from its await and runs to its next await or to its end.
\* `readable` is whether the read and parse of the file it waited for
\* succeeded (the file may have changed on disk since it was validated).
mergeStep(j, readable) ==
    LET r == running[j]
        n == Len(r.filesToMerge)
        fileType == r.filesToMerge[1].fileType
    IN  IF r.at = 0
        THEN /\ readable
             /\ mergeProgress' = Progress(1, n)
             /\ running' = [running EXCEPT ![j] =
                                Run(r.filesToMerge, 1, r.appended)]
             /\ last' = Step("mergeStep", <<>>, "created")
             /\ UNCHANGED <<error, isMerging, success, timers, downloads>>
        ELSE IF r.at = n + 1
        THEN /\ readable
             /\ mergeDelivery(j, r.appended)
        ELSE IF ~readable
        THEN mergeFailure(j)
        ELSE LET appended == Append(r.appended, r.filesToMerge[r.at])
             IN  IF r.at < n
                 THEN /\ mergeProgress' = Progress(r.at + 1, n)
                      /\ running' = [running EXCEPT ![j] =
                            Run(r.filesToMerge, r.at + 1, appended)]
                      /\ last' = Step("mergeStep", <<>>, "appended")
                      /\ UNCHANGED <<error, isMerging, success, timers,
                                     downloads>>
                 ELSE IF fileType = "csv"
                 THEN mergeDelivery(j, appended)
                 ELSE /\ running' = [running EXCEPT ![j] =
                            Run(r.filesToMerge, n + 1, appended)]
                      /\ last' = Step("mergeStep", <<>>, "appended")
                      /\ UNCHANGED <<error, isMerging, mergeProgress,
                                     success, timers, downloads>>

MergeStep ==
    /\ \E j \in 1..Len(running) : \E readable \in BOOLEAN :
          mergeStep(j, readable)
    /\ UNCHANGED <<files, renderedFiles, selectedFileIndex, pending,
                   renderedIsMerging, strategyVars, outputVars,
                   detectVars>>

\* A callback of setTimeout(() => setSuccess(null), 5000) runs.
SuccessTimeout ==
    /\ timers > 0
    /\ timers' = timers - 1
    /\ success' = NoSuccess
    /\ last' = Step("successTimeout", <<>>, "")
    /\ UNCHANGED <<files, renderedFiles, error, selectedFileIndex, pending,
                   isMerging, renderedIsMerging, mergeProgress, running,
                   downloads, strategyVars, outputVars,
                   detectVars>>

\* The well-formed files of a supported kind the user picks one at a time.
MergeSamples ==
    { f \in SampleFiles \cup WordSamples :
        typedSample[f].fileType # "null" /\ Validates(typedSample[f]) }

\* handleFileSelect with one file, once the previous one has settled.
AddOne ==
    /\ pending = EmptyBag
    /\ \E f \in MergeSamples : addFiles(<<f>>)
    /\ UNCHANGED <<mergeVars, strategyVars, outputVars,
                   detectVars>>

\* The collection with the merge button.
MergeNext ==
    \/ AddOne
    \/ AddSettle
    \/ Render
    \/ RemoveFile
    \/ ClearAllFiles
    \/ MoveButton
    \/ MergeButton
    \/ MergeStep
    \/ SuccessTimeout

MergeSpec == Init /\ [][MergeNext]_vars

\* The same with mergeFiles called directly.
MergeCallNext ==
    \/ AddOne
    \/ AddSettle
    \/ Render
    \/ RemoveFile
    \/ ClearAllFiles
    \/ MergeCall
    \/ MergeStep
    \/ SuccessTimeout

MergeCallSpec == Init /\ [][MergeCallNext]_vars

\* MergeSpec where every suspended mergeFiles call is eventually resumed:
\* each promise it awaits (a read, a parse, a save) settles, by returning
\* or by throwing.
MergeLiveSpec == Init /\ [][MergeNext]_vars /\ WF_vars(MergeStep)

\* ------------------------------------------------------- merge strategies

\* The subsequences of a sequence: the elements at any set of positions, in
\* their order.
SubSequences(master) ==
    { LET Pos(n) == CHOOSE k \in keep :
                        Cardinality({ j \in keep : j < k }) = n - 1
      IN  [n \in 1..Cardinality(keep) |-> master[Pos(n)]]
      : keep \in SUBSET (1..Len(master)) }

\* The PDF documents merged, each as its pages in order (at least one).
PdfDocuments == SubSequences(<<"p1", "p2", "p3">>) \ {<<>>}

\* The CSV files merged, each as the rows Papa.parse returns for it with
\* skipEmptyLines, a row as one value; a file may have no row at all.
CsvTables == SubSequences(<<"header", "r1", "r2", "r3">>)

\* The lists of one to MaxInputs elements of a set.
ListsOf(S) == UNION { [1..n -> S] : n \in 1..MaxInputs }

\* Mutant: the page indices from the last page to the first.
getPageIndices_Reversed(pdf) == [k \in 1..Len(pdf) |-> Len(pdf) - k]

\* pdf.getPageIndices(): 0 .. pageCount - 1.
getPageIndices(pdf) == [k \in 1..Len(pdf) |-> k - 1]

\* mergedPdf.copyPages(pdf, indices): the pages at the indices, in the
\* order of the indices.
copyPages(pdf, indices) == [k \in 1..Len(indices) |-> pdf[indices[k] + 1]]

\* Mutant: the rows of a later file taken whole, header included.
SliceFrom1_KeepsHeader(data) == data

\* result.data.slice(1)
SliceFrom1(data) == IF data = <<>> THEN <<>> ELSE Tail(data)

\* line.trim(): a line of white space only trims to the empty string.
trim(line) == IF line \in {"", " "} THEN "" ELSE line

\* text.split('\n').filter(line => line.trim()): the lines that do not trim
\* to the empty string, in their order.
RECURSIVE NonBlankLines(_)
NonBlankLines(text) ==
    IF text = <<>> THEN <<>>
    ELSE IF trim(Head(text)) = "" THEN NonBlankLines(Tail(text))
         ELSE <<Head(text)>> \o NonBlankLines(Tail(text))

\* The .docx files merged, each with the raw text mammoth extracts from it
\* as its lines; a line may be blank and a text may have no line.
DocxFiles ==
    { [name |-> "w.docx", fileType |-> "docx", text |-> t]
      : t \in SubSequences(<<"t1", " ", "t2">>) }

\* The .doc files merged; their content is never parsed.
DocFiles ==
    { [name |-> n, fileType |-> "doc", text |-> <<>>]
      : n \in {"o.doc", "q.doc"} }

\* new Paragraph({ children: [new TextRun(text)], spacing: { after } }); a
\* paragraph given no spacing has after = 0.
TextParagraph(text, after) ==
    [text |-> text, after |-> after, pageBreakBefore |-> FALSE]

\* new Paragraph({ children: [new TextRun('')], pageBreakBefore: true })
PageBreakParagraph == [text |-> "", after |-> 0, pageBreakBefore |-> TRUE]

\* The paragraph pushed for a .doc file: a note naming the file.
NoteParagraph(file) ==
    [text |-> <<"could not be processed", file.name>>, after |-> 400,
     pageBreakBefore |-> FALSE]

\* The paragraphs of the lines of one .docx file: 200 after each line, 400
\* after the last.
LineParagraphs(lines) ==
    [idx \in 1..Len(lines) |->
        TextParagraph(lines[idx], IF idx = Len(lines) THEN 400 ELSE 200)]

\* Mutant: a page break after every .docx file, the last included.
BreakAfter_Every(i, n) == TRUE

\* i < filesToMerge.length - 1, i counted from 0.
BreakAfter(i, n) == i < n - 1

\* A call of mergePDFs, mergeCSVs or mergeWordDocs on a list of inputs,
\* observed alone. mergeFiles calls a strategy with files of one fileType.
StrategyInit ==
    /\ CollectionInit
    /\ MergeIdle
    /\ \/ strategy = "pdf" /\ inputs \in ListsOf(PdfDocuments)
       \/ strategy = "csv" /\ inputs \in ListsOf(CsvTables)
       \/ strategy = "word" /\ inputs \in ListsOf(DocxFiles) \cup ListsOf(DocFiles)
    /\ loopIndex = 0
    /\ merged = <<>>
    /\ headers = NullHeaders
    /\ returned = FALSE
    /\ OutputIdle
    /\ DetectIdle

\* One iteration of the loop of mergePDFs (lines 269-278).
PdfIteration ==
    /\ strategy = "pdf"
    /\ loopIndex < Len(inputs)
    /\ mergeProgress' = Progress(loopIndex + 1, Len(inputs))
    /\ LET pdf == inputs[loopIndex + 1]
           pages == copyPages(pdf, getPageIndices(pdf))
       IN  merged' = merged \o pages
    /\ loopIndex' = loopIndex + 1
    /\ UNCHANGED <<collectionVars, renderedIsMerging, isMerging, success,
                   timers, running, downloads, strategy, inputs, headers,
                   returned, outputVars, detectVars>>

\* One iteration of the loop of mergeCSVs (lines 287-303).
CsvIteration ==
    /\ strategy = "csv"
    /\ loopIndex < Len(inputs)
    /\ mergeProgress' = Progress(loopIndex + 1, Len(inputs))
    /\ LET data == inputs[loopIndex + 1]
       IN  IF Len(data) > 0
           THEN IF loopIndex = 0
                THEN /\ headers' = data[1]
                     /\ merged' = merged \o data
                ELSE /\ merged' = merged \o SliceFrom1(data)
                     /\ UNCHANGED headers
           ELSE UNCHANGED <<merged, headers>>
    /\ loopIndex' = loopIndex + 1
    /\ UNCHANGED <<collectionVars, renderedIsMerging, isMerging, success,
                   timers, running, downloads, strategy, inputs, returned,
                   outputVars, detectVars>>

\* One iteration of the loop of mergeWordDocs (lines 317-355).
WordIteration ==
    /\ strategy = "word"
    /\ loopIndex < Len(inputs)
    /\ mergeProgress' = Progress(loopIndex + 1, Len(inputs))
    /\ LET file == inputs[loopIndex + 1]
           lines == NonBlankLines(file.text)
       IN  IF file.fileType = "docx"
           THEN merged' = merged \o LineParagraphs(lines) \o
                          (IF BreakAfter(loopIndex, Len(inputs))
                           THEN <<PageBreakParagraph>> ELSE <<>>)
           ELSE merged' = Append(merged, NoteParagraph(file))
    /\ loopIndex' = loopIndex + 1
    /\ UNCHANGED <<collectionVars, renderedIsMerging, isMerging, success,
                   timers, running, downloads, strategy, inputs, headers,
                   returned, outputVars, detectVars>>

\* The loop has ended and the strategy returns: mergedPdf.save() for
\* mergePDFs (line 279); for mergeCSVs the header test and Papa.unparse of
\* the rows (lines 306-310); for mergeWordDocs the document of the
\* paragraphs packed (lines 357-364).
StrategyReturn ==
    /\ strategy \in {"pdf", "csv", "word"}
    /\ loopIndex = Len(inputs)
    /\ ~returned
    /\ returned' = TRUE
    /\ merged' = IF /\ strategy = "csv"
                    /\ headers # NullHeaders
                    /\ Len(merged) > 0
                    /\ merged[1] # headers
                 THEN <<headers>> \o merged
                 ELSE merged
    /\ UNCHANGED <<collectionVars, mergeVars, strategy, inputs, loopIndex,
                   headers, outputVars, detectVars>>

StrategyNext ==
    \/ PdfIteration
    \/ CsvIteration
    \/ WordIteration
    \/ StrategyReturn

StrategySpec == StrategyInit /\ [][StrategyNext]_vars

\* ------------------------------------------------------------ output name
\*
\* NameSpec follows the output name alone, from the input box and the
\* extension effect to link.download: files are added one at a time and
\* validate, and a merge is followed from the click to its download; the
\* steps of the merge in between are those of MergeSpec.

\* Largest number of files in the collection while the name is followed.
MaxNamedFiles == 2

\* getDefaultExtension
getDefaultExtension(fileType) ==
    CASE fileType = "pdf" -> ExtPdf
      [] fileType = "csv" -> ExtCsv
      [] fileType = "docx" -> ExtDocx
      [] fileType = "doc" -> ExtDoc

\* outputFilename.replace(/\.(pdf|csv|docx|doc)$/i, ''): the name without
\* its ending, when the ending is one of the four in any letter case.
removeExtension(name) ==
    LET lower == toLowerCase(name)
        Cut(ext) == SubSeq(name, 1, Len(name) - Len(ext))
    IN  IF endsWith(lower, ExtPdf) THEN Cut(ExtPdf)
        ELSE IF endsWith(lower, ExtCsv) THEN Cut(ExtCsv)
        ELSE IF endsWith(lower, ExtDocx) THEN Cut(ExtDocx)
        ELSE IF endsWith(lower, ExtDoc) THEN Cut(ExtDoc)
        ELSE name

\* currentFileType of a render with the given files; "null" for null.
currentFileType(list) == IF Len(list) > 0 THEN list[1].fileType ELSE "null"

\* The effect on [currentFileType, files.length]: the output name it
\* leaves, run after a render with the given files and name.
extensionEffect(list, name) ==
    IF currentFileType(list) # "null" /\ Len(list) > 0
    THEN LET ext == getDefaultExtension(currentFileType(list))
         IN  IF ~endsWith(name, ext)
             THEN removeExtension(name) \o ext
             ELSE name
    ELSE name

\* The extension mergeFiles tests and appends in the branch of a fileType.
mergeExtension(fileType) ==
    IF fileType = "pdf" THEN ExtPdf
    ELSE IF fileType = "csv" THEN ExtCsv
    ELSE ExtDocx

\* Mutant: the extension is appended whatever the name ends with.
downloadName_AlwaysAppends(fileType, name) == name \o mergeExtension(fileType)

\* filename = outputFilename.endsWith(ext) ? outputFilename
\*                                         : `${outputFilename}${ext}`
downloadName(fileType, name) ==
    IF endsWith(name, mergeExtension(fileType))
    THEN name
    ELSE name \o mergeExtension(fileType)

Report == <<"r","e","p","o","r","t">>

\* The names typed into the output name box.
TypedNames ==
    { Report \o e : e \in {<<>>, ExtPdf, ExtCsv, ExtDocx, ExtDoc,
                           <<".","t","x","t">>} }
    \cup { <<"R","e","p","o","r","t",".","P","D","F">>, Merged, <<>> }

\* onChange of the output name box: setOutputFilename(e.target.value).
ChangeName ==
    \E name \in TypedNames :
        /\ outputFilename' = name
        /\ last' = Step("onChange", <<>>, "typed")
        /\ UNCHANGED <<files, renderedFiles, error, selectedFileIndex,
                       pending, mergeVars, strategyVars, filename,
                       detectVars>>

\* One file that validates is added to an empty collection or to one of
\* its fileType, the list is rendered, and the effect runs since
\* files.length has changed.
NameAdd ==
    \E f \in MergeSamples :
        /\ Len(files) < MaxNamedFiles
        /\ files # <<>> => typedSample[f].fileType = files[1].fileType
        /\ files' = Append(files, typedSample[f])
        /\ renderedFiles' = files'
        /\ outputFilename' = extensionEffect(files', outputFilename)
        /\ last' = Step("addFiles", <<>>, "effect")
        /\ UNCHANGED <<error, selectedFileIndex, pending, mergeVars,
                       strategyVars, filename, detectVars>>

\* Clear All, the render, and the effect, which finds no file.
NameClear ==
    /\ Len(files) > 0
    /\ files' = <<>>
    /\ renderedFiles' = files'
    /\ selectedFileIndex' = NoSelection
    /\ error' = NoError
    /\ success' = NoSuccess
    /\ outputFilename' = extensionEffect(files', outputFilename)
    /\ last' = Step("clearAllFiles", <<>>, "effect")
    /\ UNCHANGED <<pending, renderedIsMerging, isMerging, mergeProgress,
                   timers, running, downloads, strategyVars, filename,
                   detectVars>>

\* A merge of the rendered files that succeeds, from the click to
\* link.click(): the download is named after the output name.
NameMerge ==
    /\ ~mergeDisabled
    /\ \A i \in 1..Len(renderedFiles) :
            renderedFiles[i].fileType = renderedFiles[1].fileType
    /\ filename' = downloadName(renderedFiles[1].fileType, outputFilename)
    /\ last' = Step("mergeFiles", <<renderedFiles[1].fileType>>, "delivered")
    /\ UNCHANGED <<files, renderedFiles, error, selectedFileIndex, pending,
                   mergeVars, strategyVars, outputFilename, detectVars>>

NameNext ==
    \/ ChangeName
    \/ NameAdd
    \/ NameClear
    \/ NameMerge

NameSpec == Init /\ [][NameNext]_vars

\* -------------------------------------------------------- detection alone

\* The declared media types of the files given to getFileType: the six the
\* code names, none (""), a generic one, and two of other formats.
MediaTypes ==
    { "", "application/octet-stream", "application/pdf", "text/csv",
      "application/vnd.ms-excel",
      "application/vnd.openxmlformats-officedocument.wordprocessingml.document",
      "application/msword", "text/plain", "image/png" }

\* Their names: each extension, one in capitals, another format's, none.
DetectNames ==
    { <<"a">> \o e : e \in {ExtPdf, ExtCsv, ExtDocx, ExtDoc,
                            <<".","P","D","F">>, <<".","D","o","c","X">>,
                            <<".","t","x","t">>, <<>>} }

DetectFiles == [name : DetectNames, type : MediaTypes]

\* A call of getFileType on one file, observed alone.
DetectInit ==
    /\ CollectionInit
    /\ MergeIdle
    /\ StrategyIdle
    /\ OutputIdle
    /\ candidate \in DetectFiles
    /\ detected = "pending"

\* The call returns.
Detect ==
    /\ detected = "pending"
    /\ detected' = getFileType(candidate)
    /\ UNCHANGED <<collectionVars, mergeVars, strategyVars, outputVars,
                   candidate>>

DetectNext == Detect

DetectSpec == DetectInit /\ [][DetectNext]_vars

\* ================================================================ claims

\* The file types present in a list of files.
KindsOf(list) == { list[k].fileType : k \in 1..Len(list) }

\* The files of a batch whose validation succeeds, in submission order.
PassingOf(batch) == SelectSeq(batch, Validates)

\* The files of a batch whose validation fails.
FailingOf(batch) ==
    LET Fails(f) == ~Validates(f) IN SelectSeq(batch, Fails)

\* A step of addFiles up to the start of the validations, and a step that
\* settles a batch (every such step records itself in `last`).
IsCall == last'.op = "addFiles"
IsSettle == last'.op = "addSettle"

\* A step of moveFile (it records its direction, index and outcome in `last`).
IsMove == last'.op \in {"moveFile up", "moveFile down"}

\* The step settles the batch p of the running validations.
SettleOf(p) ==
    \E i \in 1..Len(p.batch) : \E eager \in BOOLEAN : addSettle(p, i, eager)

\* C1: in every reachable state all files of the collection have the same
\* fileType.
C1_SingleKind == Cardinality(KindsOf(files)) <= 1

\* C2: adding a batch with more than one supported kind to an empty
\* collection accepts no file (no validation is started, the collection
\* stays empty) and sets the same-type error.
C2_MixedBatchOnEmptyRejected ==
    [][IsCall => \A newFiles \in Batches :
          ( /\ files = <<>>
            /\ renderedFiles = <<>>
            /\ Cardinality(KindsOf(validFilesOf(newFiles))) > 1
            /\ addFiles(newFiles) )
          => ( /\ error'.kind = "sameType"
               /\ pending' = pending
               /\ files' = <<>> )]_vars

\* C3: adding a batch with a file whose kind differs from the single kind of
\* a non-empty collection rejects the whole batch: no validation is started,
\* the collection is unchanged and the same-type error is set.
C3_ConflictingBatchRejected ==
    [][IsCall => \A newFiles \in Batches :
          ( /\ files # <<>>
            /\ renderedFiles = files
            /\ Cardinality(KindsOf(files)) = 1
            /\ KindsOf(validFilesOf(newFiles)) \ KindsOf(files) # {}
            /\ addFiles(newFiles) )
          => ( /\ error'.kind = "sameType"
               /\ pending' = pending
               /\ files' = files )]_vars

\* C4: in every reachable state the sizes of the files of the collection sum
\* to at most 500 MiB, also while several batches are validating.
C4_SizeCap == TotalSize(files) <= 500 * 1024 * 1024

\* C4 witness: a batch was rejected for its size while another batch is
\* still validating, with the collection filled to the limit.
C4_Witness ==
    /\ last.op = "addSettle"
    /\ last.outcome = "sizeRejected"
    /\ pending # EmptyBag
    /\ TotalSize(files) = 500 * 1024 * 1024

\* C5: a batch that would bring the total above the limit leaves the
\* collection as it was (no prefix of it is appended), and a batch that
\* brings the total to exactly the limit is appended whole.
C5_WholeBatchOrNothing ==
    [][IsSettle => \A p \in BagToSet(pending) :
        LET passing == PassingOf(p.batch)
            total   == TotalSize(files) + TotalSize(passing)
        IN  \/ /\ total > 500 * 1024 * 1024 => files' = files
               /\ (passing # <<>> /\ total = 500 * 1024 * 1024)
                     => files' = files \o passing
            \/ ~SettleOf(p)]_vars

\* C5 witness: the collection was filled to exactly the limit and the batch
\* settled last was rejected for its size.
C5_Witness ==
    /\ last.op = "addSettle"
    /\ last.outcome = "sizeRejected"
    /\ Len(files) >= 2
    /\ TotalSize(files) = 500 * 1024 * 1024

\* C6: when a batch is rejected because the total would exceed the limit,
\* the error is the size-limit message once the add has settled.
C6_SizeErrorShown ==
    [][IsSettle => \A p \in BagToSet(pending) : \A i \in 1..Len(p.batch) :
        \A eager \in BOOLEAN :
          ( /\ addSettle(p, i, eager)
            /\ PassingOf(p.batch) # <<>>
            /\ TotalSize(files) + TotalSize(PassingOf(p.batch))
                  > 500 * 1024 * 1024 )
          => error' = SizeLimitMsg]_vars

\* C7: when a batch without unsupported files has a file that fails
\* validation and a file that passes, the error is set and names a failing
\* file once the add has settled.
C7_ValidationErrorShown ==
    [][IsSettle => \A p \in BagToSet(pending) : \A i \in 1..Len(p.batch) :
        \A eager \in BOOLEAN :
          ( /\ addSettle(p, i, eager)
            /\ ~p.hadInvalid
            /\ PassingOf(p.batch) # <<>>
            /\ FailingOf(p.batch) # <<>> )
          => ( /\ error'.kind # "null"
               /\ \E k \in 1..Len(p.batch) :
                    /\ ~Validates(p.batch[k])
                    /\ \E n \in 1..Len(error'.names) :
                          error'.names[n] = p.batch[k].name )]_vars

\* The input files that have a detected type and can be read and parsed
\* (a DOC file is never read), as addFiles stores them.
AcceptableFiles ==
    { WithType(f) : f \in
        { g \in SampleFiles :
            /\ getFileType(g) # "null"
            /\ g.wellFormed \/ getFileType(g) = "doc" } }

\* The batches whose files with a detected type are all of one kind.
UniformBatches ==
    { b \in Batches :
        /\ validFilesOf(b) # <<>>
        /\ Cardinality(KindsOf(validFilesOf(b))) = 1 }

\* The validations a call of addFiles on such a batch has to start.
StartedBy ==
    [b \in UniformBatches |->
        [batch |-> validFilesOf(b), order |-> <<>>,
         hadInvalid |-> invalidFilesOf(b) # <<>>]]

\* C8: a file with no detected type or with a failed validation is never in
\* the collection, and it does not block its batch: when the supported
\* files of the batch are of one kind, the kind of the collection if it has
\* one, their validation is started, and when it has completed every
\* passing file is appended unless the total would exceed the limit.
C8_RejectedFileDoesNotBlock ==
    [][/\ files' # files =>
            \A k \in 1..Len(files') : files'[k] \in AcceptableFiles
       /\ IsCall => \A newFiles \in UniformBatches :
            \/ ~(KindsOf(files) \subseteq KindsOf(StartedBy[newFiles].batch))
            \/ BagIn(StartedBy[newFiles], pending')
            \/ ~addFiles(newFiles)
       /\ IsSettle => \A p \in BagToSet(pending) :
            \/ files' = files \o PassingOf(p.batch)
            \/ Cardinality(KindsOf(p.batch) \cup KindsOf(files)) > 1
            \/ TotalSize(files) + TotalSize(PassingOf(p.batch))
                  > 500 * 1024 * 1024
            \/ ~SettleOf(p)]_vars

\* C8 witness: a batch with an unsupported file has settled and its passing
\* file was appended (the error still names the unsupported file).
C8_Witness ==
    /\ last.op = "addSettle"
    /\ last.outcome = "appended"
    /\ error.kind = "notSupported"
    /\ Cardinality(KindsOf(files)) = 1

\* C9: the passing files of a batch are appended at the end of the
\* collection in submission order, whatever order the validations completed
\* in, and the entries already in the collection keep their positions.
C9_SubmissionOrder ==
    [][IsSettle => \A p \in BagToSet(pending) :
          \/ files' = files
          \/ files' = files \o PassingOf(p.batch)
          \/ ~SettleOf(p)]_vars

\* C9 witness: a batch of two files whose second validation completed first
\* was appended after an entry already in the collection.
C9_Witness ==
    /\ last.op = "addSettle"
    /\ last.outcome = "appended"
    /\ last.arg = <<2, 1>>
    /\ Len(files) = 3
    /\ files[2] # files[3]

\* C10: on a collection of N files, moveFile(0, 'up') and
\* moveFile(N-1, 'down') change neither the list nor the selection nor the
\* error.
C10_BoundaryNoOp ==
    [][IsMove =>
        \/ UNCHANGED <<files, selectedFileIndex, error>>
        \/ ~(moveFile(0, "up") \/ moveFile(Len(files) - 1, "down"))]_vars

\* C10 witness: moveFile(N-1, 'down') has returned on a list of N >= 2.
C10_Witness ==
    /\ last = Step("moveFile down", <<Len(files) - 1>>, "return")
    /\ Len(files) >= 2
    /\ selectedFileIndex = Len(files) - 1

\* C11: a moveFile(index, direction) that is not at a boundary writes back
\* the list it read with the entries at index and at the adjacent target
\* position exchanged: same length, every other position unchanged.  (The
\* list moveFile reads is the rendered one; a moveFile step records its
\* index and direction in `last`.)
C11_AdjacentSwap ==
    [][IsMove =>
        LET index == last'.arg[1]
            direction == IF last'.op = "moveFile up" THEN "up" ELSE "down"
            target == IF direction = "up" THEN index - 1 ELSE index + 1
        IN  ( /\ ~(direction = "up" /\ index = 0)
              /\ ~(direction = "down" /\ index = Len(renderedFiles) - 1) )
            => /\ target \in 0..(Len(renderedFiles) - 1)
               /\ index \in 0..(Len(renderedFiles) - 1)
               /\ Len(files') = Len(renderedFiles)
               /\ files'[index + 1] = renderedFiles[target + 1]
               /\ files'[target + 1] = renderedFiles[index + 1]
               /\ \A k \in 1..Len(renderedFiles) :
                      k \notin {index + 1, target + 1}
                          => files'[k] = renderedFiles[k]]_vars

\* C11 witness: the first of three files was moved down past a different
\* file.
C11_Witness ==
    /\ last = Step("moveFile down", <<0>>, "swapped")
    /\ Len(files) = 3
    /\ files[1] # files[2]
    /\ selectedFileIndex = 1

\* A step that removes one entry: the remove button or the Delete key.
IsRemoval == last'.op \in {"removeFile", "keyDelete"}

\* The selection after the removal of the selected entry i, as claimed.
SelectionFollows(i) ==
    selectedFileIndex' = IF i > 0 THEN i - 1
                         ELSE IF Len(files') > 0 THEN 0
                         ELSE NoSelection

\* C12: whenever the selected entry at index i is removed, by the Delete or
\* Backspace key or by the remove button of its row, the selection
\* afterwards is i-1 if i > 0, else 0 if any file remains, else none.
C12_SelectionFollowsRemoval ==
    [][IsRemoval =>
        /\ KeyDelete => SelectionFollows(selectedFileIndex)
        /\ \A index \in Rows :
              (index = selectedFileIndex /\ removeButton(index))
                  => SelectionFollows(index)]_vars

\* A step of mergeFiles up to its first await, and a step that resumes a
\* suspended mergeFiles call.
IsMergeRequest == last'.op = "mergeFiles"
IsMergeStep == last'.op = "mergeStep"

\* C13: mergeFiles on a collection of fewer than 2 files starts no merge
\* strategy, sets the insufficient-files error, and leaves isMerging false
\* and the progress counter as it was.
C13_MergePrecondition ==
    [][(IsMergeRequest /\ mergeFiles /\ Len(files) < 2)
          => /\ running' = running
             /\ error'.kind = "insufficientFiles"
             /\ isMerging' = FALSE
             /\ isMerging = FALSE
             /\ mergeProgress' = mergeProgress
             /\ downloads' = downloads]_vars

\* C13 witness: mergeFiles has returned with the insufficient-files error
\* on a collection of one file.
C13_Witness ==
    /\ last = Step("mergeFiles", <<>>, "insufficient")
    /\ Len(files) = 1
    /\ renderedFiles = files
    /\ error.kind = "insufficientFiles"
    /\ isMerging = FALSE
    /\ running = <<>>

\* C14: at most one mergeFiles call is in flight; while isMerging is true
\* the merge button is disabled, and no mergeFiles step taken while
\* isMerging is true starts a run.
C14_SingleFlight ==
    [][/\ Len(running') <= 1
       /\ running' # <<>> => isMerging'
       /\ isMerging' => renderedIsMerging'
       /\ (IsMergeRequest /\ isMerging) => running' = running]_vars

\* C14 witness: a merge is in flight on a rendered list of two or more
\* files, so that only isMerging keeps the button disabled.
C14_Witness ==
    /\ isMerging
    /\ Len(running) = 1
    /\ running[1].at >= 1
    /\ Len(renderedFiles) >= 2
    /\ \A k \in 1..Len(renderedFiles) :
          renderedFiles[k].fileType = renderedFiles[1].fileType
    /\ timers = 0

\* C15: a download is triggered at most once per merge, by the step that
\* ends the merge, and it holds every input file of that merge, in order;
\* a step at which the read or parse of an input file fails ends the merge
\* with nothing delivered.
C15_NoPartialOutput ==
    [][/\ Len(downloads') <= 1
       /\ ~IsMergeStep => downloads' \in {downloads, <<>>}
       /\ IsMergeStep => \A j \in 1..Len(running) : \A readable \in BOOLEAN :
            mergeStep(j, readable) =>
              LET r == running[j]
              IN  /\ downloads' # downloads =>
                        /\ downloads = <<>>
                        /\ downloads'[1].content = r.filesToMerge
                        /\ running' = RemoveAt(running, j)
                  /\ (~readable /\ r.at \in 1..Len(r.filesToMerge)) =>
                        /\ downloads' = <<>>
                        /\ running' = RemoveAt(running, j)]_vars

\* C15 witness: a merge has failed at its second file, after the first one
\* had been appended, and nothing was delivered.
C15_Witness ==
    /\ last = Step("mergeStep", <<2>>, "failed")
    /\ downloads = <<>>
    /\ running = <<>>
    /\ error.kind = "mergeFailed"

\* C16: a merge step at which the read or parse of an input file fails
\* leaves the file list and the selection as they were, sets the
\* merge-failed error and returns isMerging to false with no call left in
\* flight; no step of mergeFiles changes the file list.
C16_FailedMergeKeepsFiles ==
    [][/\ (IsMergeStep \/ IsMergeRequest) => files' = files
       /\ IsMergeStep => \A j \in 1..Len(running) :
            LET r == running[j]
            IN  (mergeStep(j, FALSE) /\ r.at \in 1..Len(r.filesToMerge)) =>
                  /\ files' = files
                  /\ selectedFileIndex' = selectedFileIndex
                  /\ error'.kind = "mergeFailed"
                  /\ error'.types = <<r.filesToMerge[1].fileType>>
                  /\ isMerging' = FALSE
                  /\ mergeProgress' = Progress(0, 0)
                  /\ running' = <<>>]_vars

\* C16 witness: after a failed merge the list still holds its files of one
\* kind and the merge button is enabled again.
C16_Witness ==
    /\ error.kind = "mergeFailed"
    /\ ~isMerging
    /\ ~mergeDisabled
    /\ timers < MaxTimers
    /\ files = renderedFiles
    /\ Len(files) = 3
    /\ \A k \in 1..Len(files) : files[k].fileType = error.types[1]

\* C17: the progress counter is stepped to current = k only once the k-th
\* input file has been read and appended to the output of the merge in
\* flight.
C17_ProgressAfterAppend ==
    [][(/\ mergeProgress'.current # mergeProgress.current
        /\ mergeProgress'.current >= 1)
          => /\ running' # <<>>
             /\ \A j \in 1..Len(running') :
                   Len(running'[j].appended) >= mergeProgress'.current]_vars

RECURSIVE Flatten(_)
\* The concatenation of a list of sequences, in list order.
Flatten(list) ==
    IF list = <<>> THEN <<>> ELSE list[1] \o Flatten(Tail(list))

RECURSIVE SumLen(_)
SumLen(list) == IF list = <<>> THEN 0 ELSE Len(list[1]) + SumLen(Tail(list))

\* C18: the pages of the document mergePDFs returns are the pages of the
\* inputs concatenated in list order, each input's pages in their original
\* order (and after each iteration those of the inputs read so far); its
\* page count is the sum of the inputs' page counts.
C18_PdfOrderPreserved ==
    strategy = "pdf" =>
        /\ merged = Flatten(SubSeq(inputs, 1, loopIndex))
        /\ returned => /\ merged = Flatten(inputs)
                       /\ Len(merged) = SumLen(inputs)

\* C18 witness: three documents, one of them of three pages, were merged
\* and the result differs from the same documents taken in another order.
C18_Witness ==
    /\ strategy = "pdf"
    /\ returned
    /\ inputs = << <<"p2", "p3">>, <<"p1", "p2", "p3">>, <<"p1">> >>
    /\ merged = <<"p2", "p3", "p1", "p2", "p3", "p1">>

RECURSIVE FlattenTails(_)
\* The rows from index 1 onward of each file of a list, in list order.
FlattenTails(list) ==
    IF list = <<>> THEN <<>>
    ELSE (IF list[1] = <<>> THEN <<>> ELSE Tail(list[1]))
            \o FlattenTails(Tail(list))

\* C19: when the first file has at least one row, the rows mergeCSVs
\* returns are all rows of the first file followed, for each later file in
\* list order, by that file's rows from index 1 onward; merging
\* [A(header,r1,r2), B(header,r3)] gives [header,r1,r2,r3].
C19_CsvMerge ==
    (strategy = "csv" /\ returned /\ Len(inputs[1]) >= 1) =>
        /\ merged = inputs[1] \o FlattenTails(Tail(inputs))
        /\ inputs = << <<"header", "r1", "r2">>, <<"header", "r3">> >>
              => merged = <<"header", "r1", "r2", "r3">>

\* C19 witness: [A(header,r1,r2), B(header,r3)] was merged.
C19_Witness ==
    /\ strategy = "csv"
    /\ returned
    /\ inputs = << <<"header", "r1", "r2">>, <<"header", "r3">> >>
    /\ merged = <<"header", "r1", "r2", "r3">>

\* The first file of a list that has a row (0 if there is none).
FirstWithRows(list) ==
    IF \E k \in 1..Len(list) : list[k] # <<>>
    THEN CHOOSE k \in 1..Len(list) :
            list[k] # <<>> /\ \A j \in 1..(k - 1) : list[j] = <<>>
    ELSE 0

\* C20: when the first file parses to zero rows and a later file has rows,
\* the rows mergeCSVs returns begin with the header row (row 0 of the
\* first file that has rows).
C20_HeaderKeptAfterEmptyFirst ==
    (/\ strategy = "csv"
     /\ returned
     /\ inputs[1] = <<>>
     /\ FirstWithRows(inputs) > 0)
        => /\ merged # <<>>
           /\ merged[1] = inputs[FirstWithRows(inputs)][1]

\* The paragraphs of a list that are page breaks, by position.
PageBreaksOf(paragraphs) ==
    { k \in 1..Len(paragraphs) : paragraphs[k].pageBreakBefore }

\* The number of content paragraphs (lines or note) the first i inputs give.
RECURSIVE ContentThrough(_, _)
ContentThrough(list, i) ==
    IF i = 0 THEN 0
    ELSE ContentThrough(list, i - 1) +
         (IF list[i].fileType = "docx"
          THEN Len(NonBlankLines(list[i].text)) ELSE 1)

\* The positions of a merged paragraph list with one page break after the
\* content of each input but the last.
BreaksBetween(list) ==
    { ContentThrough(list, i) + i : i \in 1..(Len(list) - 1) }

\* A returned Word merge of n >= 2 .docx files has exactly n - 1 page-break
\* paragraphs, one after the content of each document but the last.
C21_DocxPageBreaks ==
    (/\ strategy = "word"
     /\ returned
     /\ Len(inputs) >= 2
     /\ inputs[1].fileType = "docx")
    => /\ Cardinality(PageBreaksOf(merged)) = Len(inputs) - 1
       /\ PageBreaksOf(merged) = BreaksBetween(inputs)

\* A returned merge of two or more .docx files, one of them with text.
C21_DocxWitness ==
    /\ strategy = "word"
    /\ returned
    /\ Len(inputs) >= 2
    /\ inputs[1].fileType = "docx"
    /\ Len(merged) > Len(inputs)

\* C21: a returned Word merge of n >= 2 inputs of one kind, all DOCX or all
\* DOC, has exactly n - 1 page-break paragraphs, one between each pair of
\* consecutive documents and none after the last.
C21_WordPageBreaks ==
    (/\ strategy = "word"
     /\ returned
     /\ Len(inputs) >= 2)
    => /\ Cardinality(PageBreaksOf(merged)) = Len(inputs) - 1
       /\ PageBreaksOf(merged) = BreaksBetween(inputs)

\* The canonical extension of a kind: .pdf, .csv, and .docx for both Word
\* kinds.
CanonicalExtension(kind) ==
    CASE kind = "pdf" -> ExtPdf
      [] kind = "csv" -> ExtCsv
      [] kind \in {"docx", "doc"} -> ExtDocx

\* A merge has just delivered its download.
Delivered == last.op = "mergeFiles" /\ last.outcome = "delivered"

\* C22: the delivered filename is the output name itself when the name
\* ends with the kind's extension and the name plus that extension
\* otherwise; 'report' and 'report.pdf' both give 'report.pdf' for a PDF
\* merge; the rule applied to a delivered filename gives it back.
C22_ExtensionNormalization ==
    Delivered =>
        LET kind == last.arg[1]
            ext == CanonicalExtension(kind)
            Rule(name) == IF endsWith(name, ext) THEN name ELSE name \o ext
        IN  /\ filename = Rule(outputFilename)
            /\ (kind = "pdf" /\ outputFilename \in {Report, Report \o ExtPdf})
               => filename = Report \o ExtPdf
            /\ Rule(filename) = filename
            /\ downloadName(kind, filename) = filename

\* A PDF merge delivered under the typed name 'report.pdf'.
C22_Witness ==
    /\ Delivered
    /\ last.arg[1] = "pdf"
    /\ outputFilename = Report \o ExtPdf
    /\ filename = Report \o ExtPdf

\* C23: an output name that ends with the canonical extension in any
\* letter case is delivered as it is.
C23_CaseInsensitiveTest ==
    Delivered =>
        (endsWith(toLowerCase(outputFilename),
                  CanonicalExtension(last.arg[1]))
         => filename = outputFilename)

\* A merge is delivered right after an add and its output-name update.
MergedAfterAdd == last.op = "addFiles" /\ last'.op = "mergeFiles"

\* The user's stem followed by the canonical extension of the kind.
StemWithExtension(name, kind) ==
    removeExtension(name) \o CanonicalExtension(kind)

\* For the kinds other than DOC: a merge that follows an add and its
\* output-name update is delivered as the stem and the canonical extension.
C25_ExceptDoc ==
    [][(MergedAfterAdd /\ last'.arg[1] # "doc")
       => filename' = StemWithExtension(outputFilename, last'.arg[1])]_vars

\* C25: for every kind, a merge that follows the adds of files of that kind
\* and the automatic output-name update is delivered as the user's stem
\* followed by exactly one extension, the canonical one of the kind (.docx
\* for DOC: 'merged.docx' from the default name).
C25_OneCanonicalExtension ==
    [][MergedAfterAdd
       => filename' = StemWithExtension(outputFilename, last'.arg[1])]_vars

\* The kind a declared media type maps to, "null" when it is not listed.
KindOfMediaType(type) ==
    CASE type = "application/pdf" -> "pdf"
      [] type \in {"text/csv", "application/vnd.ms-excel"} -> "csv"
      [] type = "application/vnd.openxmlformats-officedocument.wordprocessingml.document"
           -> "docx"
      [] type = "application/msword" -> "doc"
      [] OTHER -> "null"

\* The kind a name's extension maps to in any letter case, or "null".
KindOfExtension(name) ==
    LET lower == toLowerCase(name)
    IN  CASE endsWith(lower, ExtPdf) -> "pdf"
          [] endsWith(lower, ExtCsv) -> "csv"
          [] endsWith(lower, ExtDocx) -> "docx"
          [] endsWith(lower, ExtDoc) -> "doc"
          [] OTHER -> "null"

\* The reference rule: a listed media type decides; the extension decides
\* only when the media type is absent or generic; anything else is null.
ReferenceKind(file) ==
    IF KindOfMediaType(file.type) # "null" THEN KindOfMediaType(file.type)
    ELSE IF file.type \in {"", "application/octet-stream"}
         THEN KindOfExtension(file.name)
         ELSE "null"

\* C24: for every declared media type and file name, getFileType returns
\* the kind of the reference rule; in particular a file whose media type
\* maps to one kind and whose extension maps to another has the kind of
\* its media type.
C24_DetectionIsReference ==
    detected \notin {"none", "pending"} => detected = ReferenceKind(candidate)

\* Where media type and extension do not disagree and the media type is
\* listed, absent or generic, getFileType returns the reference kind.
C24_AgreesWithoutConflict ==
    (/\ detected \notin {"none", "pending"}
     /\ \/ candidate.type \in {"", "application/octet-stream"}
        \/ /\ KindOfMediaType(candidate.type) # "null"
           /\ KindOfExtension(candidate.name)
                  \in {"null", KindOfMediaType(candidate.type)})
    => detected = ReferenceKind(candidate)

\* The last part alone: a file whose media type is listed has the kind of
\* its media type, whatever its name.
C24_MediaTypeDecides ==
    (/\ detected \notin {"none", "pending"}
     /\ KindOfMediaType(candidate.type) # "null")
    => detected = KindOfMediaType(candidate.type)

\* Every file of a list has the fileType of the first.
OneKind(list) == \A k \in 1..Len(list) : list[k].fileType = list[1].fileType

\* C26: isMerging becomes true only on a collection of at least 2 files of
\* one fileType, which are the files the run started then merges; a merge
\* request on a collection of mixed kinds sets the mixed-types error, starts
\* no run, and leaves isMerging false and the downloads as they were.
C26_MergingOnlyWhenReady ==
    [][/\ (isMerging' /\ ~isMerging)
          => /\ Len(renderedFiles) >= 2
             /\ OneKind(renderedFiles)
             /\ Len(running') = Len(running) + 1
             /\ running'[Len(running')].filesToMerge = renderedFiles
       /\ (IsMergeRequest /\ ~mergeDisabled /\ ~OneKind(renderedFiles))
          => /\ error' = MixedTypesMsg
             /\ running' = running
             /\ isMerging' = FALSE
             /\ isMerging = FALSE
             /\ downloads' = downloads
             /\ mergeProgress' = mergeProgress]_vars

\* A merge request has been rejected on a rendered collection of two kinds.
C26_Witness ==
    /\ last = Step("mergeFiles", <<>>, "mixed")
    /\ Len(files) >= 2
    /\ ~OneKind(files)
    /\ renderedFiles = files
    /\ error = MixedTypesMsg
    /\ isMerging = FALSE
    /\ running = <<>>

\* A merge has just ended, delivered or failed, and the page is idle again.
MergeEnded ==
    /\ last.op = "mergeStep"
    /\ \/ last.outcome = "delivered" /\ success # NoSuccess /\ downloads # <<>>
       \/ last.outcome = "failed" /\ error.kind = "mergeFailed"
    /\ ~isMerging
    /\ mergeProgress = Progress(0, 0)

\* C27: every merge that starts eventually ends in success or in failure,
\* with isMerging false and the progress counter at 0 of 0, provided every
\* awaited step of the merge settles.
C27_MergeEnds == isMerging ~> MergeEnded

\* A merge has ended by a failure and the page is idle.
C27_Witness ==
    /\ MergeEnded
    /\ last.outcome = "failed"
    /\ running = <<>>

\* C28: a merge works on the files rendered when it was requested; no step
\* other than its own (an add, a removal, a move, Clear All, a render)
\* changes the files it reads, their order, what it has appended or what
\* has been downloaded; its own steps keep the list it reads, append its
\* files in their order, and the download holds exactly that list.
C28_MergeReadsSnapshot ==
    [][/\ (~IsMergeRequest /\ ~IsMergeStep)
          => running' = running /\ downloads' = downloads
       /\ (IsMergeRequest /\ Len(running') > Len(running))
          => running'[Len(running')].filesToMerge = renderedFiles
       /\ (IsMergeStep /\ running # <<>>)
          => IF Len(running') = Len(running)
             THEN /\ running'[1].filesToMerge = running[1].filesToMerge
                  /\ running'[1].appended =
                        SubSeq(running[1].filesToMerge, 1,
                               Len(running'[1].appended))
                  /\ downloads' = downloads
             ELSE last'.outcome = "delivered"
                  => /\ Len(downloads') = Len(downloads) + 1
                     /\ downloads'[Len(downloads')].content =
                           running[1].filesToMerge]_vars

\* A merge has delivered the files it was started on after the collection
\* was cleared while it was in flight.
C28_Witness ==
    /\ last = Step("mergeStep", <<>>, "delivered")
    /\ files = <<>>
    /\ Len(downloads) = 1
    /\ Len(downloads[1].content) >= 2

\* C29: in every reachable state selectedFileIndex is null or the index of
\* an entry of the collection.
C29_SelectionValid ==
    \/ selectedFileIndex = NoSelection
    \/ selectedFileIndex \in 0..(Len(files) - 1)

\* The last entry of a collection of two or more files is selected after
\* a removal by the Delete key.
C29_Witness ==
    /\ last.op = "keyDelete"
    /\ Len(files) >= 2
    /\ selectedFileIndex = Len(files) - 1

\* C30: a move that writes the list keeps every file of the collection, the
\* files an add has appended since the last render included.
C30_MoveKeepsAppended ==
    [][(IsMove /\ last'.outcome = "swapped")
       => /\ Len(files') = Len(files)
          /\ \A k \in 1..Len(files) :
                \E m \in 1..Len(files') : files'[m] = files[k]]_vars

====
